---- MODULE Spec2Model ----
(***************************************************************************)
(* The speed-limit decision pipeline: the Controller (decide_speed_limit)  *)
(* calls the Router service, then either the Inference service             *)
(* (find_safe_speed_limit) or the Air Quality service                      *)
(* (calculate_reduction, which asks AirQualityAgent.get_speed_reduction).  *)
(*                                                                         *)
(* Floats that the code compares against thresholds are modelled as        *)
(* integers: sensor values in their own unit, predicted risk in tenths     *)
(* (risk < 1.0 is risk < 10).                                              *)
(***************************************************************************)
EXTENDS Integers, Sequences, FiniteSets, TLC

VARIABLES
    started,       \* the Inference service has run its startup event
    model,         \* Inference global: the loaded Keras model, or not loaded
    scaler,        \* Inference global: the loaded scaler, or not loaded
    feature_cols,  \* Inference global: the loaded feature list, or not loaded
    imputer,       \* Inference global: the loaded imputer, or not loaded
    user_input,    \* user_input[r]: the UserInput of top-level request r
    pc,            \* pc[r]: where decide_speed_limit stands for request r
    reply,         \* reply[r]: what the awaited client.post of request r got
    requires_nn,   \* requires_nn[r]: the Controller's local of that name
    router_reason, \* router_reason[r]: the Controller's local of that name
    decision,      \* decision[r]: what decide_speed_limit returned or raised
    calls,         \* calls[r]: the services request r has posted to, in order
    replies,       \* replies[r]: the replies request r has read, in order
    agent_log,     \* agent_log[r]: the provider call made for r and its result
    direct         \* the call a client made to the Inference or Router service itself

vars == <<started, model, scaler, feature_cols, imputer, user_input, pc, reply,
          requires_nn, router_reason, decision, calls, replies, agent_log,
          direct>>

artifacts == <<model, scaler, feature_cols, imputer>>

----------------------------------------------------------------------------
(* Bounds of the model *)

\* a predicted risk is just under the budget, at it, or MaxExcessRisk tenths over it
MaxExcessRisk == 1

\* the completion provider's reductions are -20, 0, 20, ..., 20 * MaxReductionSteps
MaxReductionSteps == 3

----------------------------------------------------------------------------
(* Program constants *)

THRESHOLD_LUX == 500
THRESHOLD_WATER == 1000
THRESHOLD_TEMP == 0

BASELINE_SPEED == 80
POLICY_FLOOR == 30

\* risk < 1.0, in tenths
RISK_BUDGET == 10
\* lowest_risk = 999.0, in tenths
INITIAL_LOWEST_RISK == 9990
INITIAL_BEST_SPEED == 30
EXHAUSTED_SPEED == 60
MISSING_SPEED_LIMIT_SPEED == 80

candidate_speeds == <<130, 120, 110, 100, 90, 80, 70, 60>>

Ladder == {candidate_speeds[i] : i \in 1..Len(candidate_speeds)}

Max(a, b) == IF a >= b THEN a ELSE b

\* dict.get(key, default) on a JSON object
Get(obj, key, default) == IF key \in DOMAIN obj THEN obj[key] ELSE default

NotLoaded == [loaded |-> FALSE]

NoReply == [kind |-> "none"]

----------------------------------------------------------------------------
(* Router service *)

\* the darkness rule with the threshold itself counted as dark
is_dark_inclusive(data) == data.illuminance_lux <= THRESHOLD_LUX

is_dark(data) == data.illuminance_lux < THRESHOLD_LUX

is_black_ice(data) ==
    (data.water_level_micrometers > THRESHOLD_WATER)
        /\ (data.temperature_celsius < THRESHOLD_TEMP)

\* the RouterDecision; reason is the list that " & ".join(reasons) joins
check_weather_conditions(data) ==
    LET reasons == (IF is_dark(data) THEN <<"Darkness detected">> ELSE <<>>)
                   \o (IF is_black_ice(data) THEN <<"Black Ice danger detected">> ELSE <<>>)
    IN  IF is_dark(data) \/ is_black_ice(data)
        THEN [requires_neural_network |-> TRUE, reason |-> reasons]
        ELSE [requires_neural_network |-> FALSE, reason |-> <<"Conditions are safe">>]

----------------------------------------------------------------------------
(* Inference service *)

\* the feature list the scaler and the imputer were fitted on
FeaturesTrained == <<"W", "L", "T", "SPEED_LIMIT">>
\* a feature list of the same length that names no SPEED_LIMIT column
FeaturesRenamed == <<"W", "L", "T", "SPEED">>
\* a feature list with SPEED_LIMIT and one column more than the scaler knows
FeaturesExtra == <<"W", "L", "T", "N", "SPEED_LIMIT">>

FeatureLists == {FeaturesTrained, FeaturesRenamed, FeaturesExtra}

RiskValues == {RISK_BUDGET - 1, RISK_BUDGET, RISK_BUDGET + MaxExcessRisk}

\* a model whose softplus output is above 999.0 for every candidate
Overwhelmed ==
    [loaded |-> TRUE, risk |-> [s \in Ladder |-> INITIAL_LOWEST_RISK + MaxExcessRisk]]

\* a loaded Keras model: what model.predict gives for a row with that SPEED_LIMIT
AllModels ==
    {[loaded |-> TRUE, risk |-> f] : f \in [Ladder -> RiskValues]} \cup {Overwhelmed}

LoadedScaler == [loaded |-> TRUE, n_features |-> Len(FeaturesTrained)]
\* a fitted SimpleImputer(strategy='mean'); mean stands for the training mean
\* it puts in place of np.nan
LoadedImputer ==
    [loaded |-> TRUE, n_features |-> Len(FeaturesTrained), mean |-> [sum |-> 1, n |-> 1]]

id_to_type ==
    [id \in 1..18 |->
        CASE id \in {1, 8, 11} -> "W"
          [] id \in {2, 9, 12} -> "L"
          [] id \in {7, 15, 16, 18} -> "T"
          [] id \in {3, 10} -> "N"
          [] id = 4 -> "H"
          [] id \in {5, 13} -> "WD"
          [] id \in {6, 14} -> "WS"
          [] id = 17 -> "AP"]

Names(cols) == {cols[i] : i \in 1..Len(cols)}

RECURSIVE SumOver(_, _)
SumOver(readings, ids) ==
    IF ids = {} THEN 0
    ELSE LET id == CHOOSE x \in ids : TRUE
         IN  readings[id] + SumOver(readings, ids \ {id})

\* temp_values[col]: the ids of the readings appended to that column's list
temp_values(readings, cols, col) ==
    {id \in DOMAIN readings :
        id \in DOMAIN id_to_type /\ id_to_type[id] \in Names(cols) /\ id_to_type[id] = col}

\* a feature value sum(vals) / len(vals), kept as the pair; n = 0 is np.nan
NaN == [sum |-> 0, n |-> 0]

\* a row that keeps one reading of each type instead of their mean
input_values_single(readings, cols) ==
    [col \in Names(cols) |->
        LET vals == temp_values(readings, cols, col)
        IN  IF vals # {}
            THEN [sum |-> readings[CHOOSE id \in vals : TRUE], n |-> 1]
            ELSE NaN]

input_values(readings, cols) ==
    [col \in Names(cols) |->
        LET vals == temp_values(readings, cols, col)
        IN  IF vals # {}
            THEN [sum |-> SumOver(readings, vals), n |-> Cardinality(vals)]
            ELSE NaN]

\* 'SPEED_LIMIT' not in feature_cols
SpeedLimitMissing(cols) == "SPEED_LIMIT" \notin Names(cols)

\* imputer.transform and scaler.transform raise ValueError on a row whose
\* number of columns is not the number they were fitted on; scaler.transform
\* raises on a scaler that is None
TransformRaises(cols, imp, scl) ==
    \/ imp.loaded /\ Len(cols) # imp.n_features
    \/ ~scl.loaded
    \/ Len(cols) # scl.n_features

\* a fill that leaves np.nan in the row
fillna_nothing(row) == row

\* df_trial.fillna(0).values
fillna_zero(row) ==
    [col \in DOMAIN row |-> IF row[col] = NaN THEN [sum |-> 0, n |-> 1] ELSE row[col]]

\* imputer.transform(df_trial)
imputer_transform(row, imp) ==
    [col \in DOMAIN row |-> IF row[col] = NaN THEN imp.mean ELSE row[col]]

\* the trial row of a candidate: SPEED_LIMIT set to the speed, then imputed
X_imputed(row, speed, imp) ==
    LET df_trial == [row EXCEPT !["SPEED_LIMIT"] = [sum |-> speed, n |-> 1]]
    IN  IF imp.loaded THEN imputer_transform(df_trial, imp) ELSE fillna_zero(df_trial)

\* float(model.predict(X_scaled)[0][0]) for the trial row of that speed
Predict(mdl, speed) == mdl.risk[speed]

\* a test that accepts a risk of exactly 1.0
WithinBudgetInclusive(risk) == risk <= RISK_BUDGET

\* REQ1: risk < 1.0
WithinBudget(risk) == risk < RISK_BUDGET

\* if risk < lowest_risk: lowest_risk = risk
TrackLowest(lowest_risk, risk) == IF risk < lowest_risk THEN risk ELSE lowest_risk

\* the optimization loop from candidate i on; scored lists the candidates scored
RECURSIVE OptimizationLoop(_, _, _, _)
OptimizationLoop(mdl, i, lowest_risk, scored) ==
    IF i > Len(candidate_speeds)
    THEN [best_speed |-> INITIAL_BEST_SPEED, found_safe |-> FALSE,
          lowest_risk |-> lowest_risk, scored |-> scored]
    ELSE LET speed == candidate_speeds[i]
             risk == Predict(mdl, speed)
             low == TrackLowest(lowest_risk, risk)
         IN  IF WithinBudget(risk)
             THEN [best_speed |-> speed, found_safe |-> TRUE,
                   lowest_risk |-> low, scored |-> Append(scored, speed)]
             ELSE OptimizationLoop(mdl, i + 1, low, Append(scored, speed))

\* a response that returns the loop's last value of best_speed when no
\* candidate was accepted
SearchResponseLastValue(loop) ==
    [recommended_speed |-> loop.best_speed,
     predicted_risk |-> loop.lowest_risk,
     safety_status |-> IF loop.found_safe THEN "Safe"
                       ELSE "Risk High - Lowest Limit Selected"]

\* the SpeedLimitResponse built after the loop
SearchResponse(loop) ==
    [recommended_speed |-> IF loop.found_safe THEN loop.best_speed ELSE EXHAUSTED_SPEED,
     predicted_risk |-> loop.lowest_risk,
     safety_status |-> IF loop.found_safe THEN "Safe"
                       ELSE "Risk High - Lowest Limit Selected"]

\* the early return when the feature list has no SPEED_LIMIT column
MissingSpeedLimitResponse ==
    [recommended_speed |-> MISSING_SPEED_LIMIT_SPEED,
     predicted_risk |-> 0,
     safety_status |-> "Error: SPEED_LIMIT missing in model"]

\* an artifacts check that leaves the scaler out
ArtifactsMissingNoScaler(mdl, scl, cols) == ~mdl.loaded \/ ~cols.loaded

\* if model is None or scaler is None or feature_cols is None
ArtifactsMissing(mdl, scl, cols) == ~mdl.loaded \/ ~scl.loaded \/ ~cols.loaded

\* POST /optimize_speed_limit: the HTTP reply, the input row built from the
\* readings, the candidates scored and the imputed trial row of each
find_safe_speed_limit(readings, mdl, scl, cols, imp) ==
    IF ArtifactsMissing(mdl, scl, cols)
    THEN [kind |-> "json", status |-> 503,
          body |-> [detail |-> "Service not ready. Artifacts missing."],
          row |-> <<>>, scored |-> <<>>, trials |-> <<>>]
    ELSE IF SpeedLimitMissing(cols.names)
    THEN [kind |-> "json", status |-> 200, body |-> MissingSpeedLimitResponse,
          row |-> input_values(readings, cols.names), scored |-> <<>>, trials |-> <<>>]
    ELSE IF TransformRaises(cols.names, imp, scl)
    THEN [kind |-> "garbled", status |-> 500, body |-> [text |-> "Internal Server Error"],
          row |-> input_values(readings, cols.names), scored |-> <<>>, trials |-> <<>>]
    ELSE LET loop == OptimizationLoop(mdl, 1, INITIAL_LOWEST_RISK, <<>>)
             row == input_values(readings, cols.names)
         IN  [kind |-> "json", status |-> 200, body |-> SearchResponse(loop),
              row |-> row, scored |-> loop.scored,
              trials |-> [i \in 1..Len(loop.scored) |->
                             X_imputed(row, loop.scored[i], imp)]]

----------------------------------------------------------------------------
(* Air Quality service *)

\* what the structured-completion call can do: return a parsed
\* SpeedReductionResponse, or fail in one of these ways
ProviderFailures == {"timeout", "network", "schema"}

Reductions == {20 * k : k \in -1..MaxReductionSteps}

ProviderOutcomes ==
    {[kind |-> "parsed", reduction_kmh |-> n, reason |-> "AQI rule"] : n \in Reductions}
        \cup {[kind |-> f] : f \in ProviderFailures}

\* a fallback that reduces the limit instead of keeping the baseline
FallbackReducing ==
    [reduction_kmh |-> 20,
     reason |-> "Error connecting to AI Agent. Defaulting to safe baseline."]

\* a fallback that remembers earlier calls: it reduces once the agent has
\* been called before
FallbackOnceCalled ==
    IF \E q \in DOMAIN agent_log : agent_log[q].reason = "called"
    THEN FallbackReducing
    ELSE [reduction_kmh |-> 0,
          reason |-> "Error connecting to AI Agent. Defaulting to safe baseline."]

\* the except branch of get_speed_reduction
Fallback ==
    [reduction_kmh |-> 0,
     reason |-> "Error connecting to AI Agent. Defaulting to safe baseline."]

\* AirQualityAgent.get_speed_reduction, given what the provider call did
get_speed_reduction(outcome) ==
    IF outcome.kind = "parsed"
    THEN [reduction_kmh |-> outcome.reduction_kmh, reason |-> outcome.reason]
    ELSE Fallback

\* a final limit without the floor
final_limit_unfloored(reduction) == BASELINE_SPEED - reduction

\* final_limit = max(30, BASELINE_SPEED - reduction)
final_limit(reduction) == Max(POLICY_FLOOR, BASELINE_SPEED - reduction)

\* POST /calculate_reduction: the HTTP reply
calculate_reduction(aqi, result) ==
    LET reduction == Get(result, "reduction_kmh", 0)
        reason == Get(result, "reason", "No reason provided")
    IN  [kind |-> "json", status |-> 200,
         body |-> [aqi_received |-> aqi,
                   reduction_kmh |-> reduction,
                   reason |-> reason,
                   recommended_speed_limit |-> final_limit(reduction)]]

----------------------------------------------------------------------------
(* Controller *)

Requests == {1, 2}

Services == {"router", "inference", "air_quality"}

\* what a client.post followed by .json() can meet besides the service's own
\* reply: the post raises (timeout, refused), the body is no JSON object
\* (garbled), or it is a JSON object of another shape (an error body)
PostRaises == {"timeout", "refused"}

TransportFaults ==
    {[kind |-> k, status |-> 0, body |-> [detail |-> k]] : k \in PostRaises}
        \cup {[kind |-> "garbled", status |-> 502, body |-> [text |-> "Bad Gateway"]],
              [kind |-> "json", status |-> 404, body |-> [detail |-> "Not Found"]]}

NoInput == [aqi |-> -1]
NoDecision == [status |-> 0]
NoResult == [reason |-> "none"]

map_input_to_sensors(data) ==
    (1 :> data.water_level_micrometers) @@ (2 :> data.illuminance_lux)
        @@ (7 :> data.temperature_celsius)

router_payload(data) ==
    [illuminance_lux |-> data.illuminance_lux,
     water_level_micrometers |-> data.water_level_micrometers,
     temperature_celsius |-> data.temperature_celsius]

\* a call that raises only when the post itself does
CallRaisesOnPostOnly(rep) == rep.kind \in PostRaises

\* client.post raised, or .json() raised on the body
CallRaises(rep) == rep.kind \in PostRaises \cup {"garbled"}

\* a subscript data["key"] raises KeyError
HasFields(rep, keys) == \A k \in keys : k \in DOMAIN rep.body

ServiceUnavailable(svc) == [status |-> 503, detail |-> svc]

\* requires_nn = router_data.get("requires_neural_network", False)
ReadRequiresNN(router_data) == Get(router_data, "requires_neural_network", FALSE)

\* router_reason = router_data.get("reason", "Unknown")
ReadRouterReason(router_data) == Get(router_data, "reason", <<"Unknown">>)

\* the FinalSystemDecision of branch A
RiskDecision(reason, inference_data) ==
    [status |-> 200,
     final_speed_limit |-> inference_data["recommended_speed"],
     reason |-> [text |-> "Weather Hazard Detected", router |-> reason,
                 detail |-> inference_data["safety_status"]],
     source_service |-> "Neural Network Inference"]

\* the FinalSystemDecision of branch B
PolicyDecision(aq_data) ==
    [status |-> 200,
     final_speed_limit |-> aq_data["recommended_speed_limit"],
     reason |-> [text |-> "Weather is safe", router |-> <<>>,
                 detail |-> aq_data["reason"]],
     source_service |-> "Air Quality Agent (LLM)"]

\* what the except clause around the inference call lets through
AfterInference(reason, rep) ==
    IF CallRaises(rep) \/ ~HasFields(rep, {"recommended_speed", "safety_status"})
    THEN ServiceUnavailable("Inference Service")
    ELSE RiskDecision(reason, rep.body)

\* an air quality branch that answers with the baseline when the call fails
AfterAirQualityBaseline(rep) ==
    IF CallRaises(rep) \/ ~HasFields(rep, {"recommended_speed_limit", "reason"})
    THEN PolicyDecision([recommended_speed_limit |-> BASELINE_SPEED,
                         reason |-> "Air quality unavailable"])
    ELSE PolicyDecision(rep.body)

\* what the except clause around the air quality call lets through
AfterAirQuality(rep) ==
    IF CallRaises(rep) \/ ~HasFields(rep, {"recommended_speed_limit", "reason"})
    THEN ServiceUnavailable("Air Quality Service")
    ELSE PolicyDecision(rep.body)

----------------------------------------------------------------------------
(* Inputs of the model *)

\* the weather of a snapshot, <<temperature, water, lux>>: dark and dry,
\* light and dry, light with black ice
Weathers == {<<15, 0, 499>>, <<15, 0, 501>>, <<-5, 2000, 1000>>}

AQIs == {30, 200}

\* the snapshots sent to the Controller
UserInputs ==
    {[temperature_celsius |-> w[1], water_level_micrometers |-> w[2],
      illuminance_lux |-> w[3], aqi |-> a] : w \in Weathers, a \in AQIs}

\* the weather triples sent to the Router directly: around each threshold
WeatherInputs ==
    [illuminance_lux : {0, 499, 500, 501, 50000},
     water_level_micrometers : {0, 999, 1000, 1001, 2000},
     temperature_celsius : {-5, -1, 0, 1, 15}]

\* the readings sent to the Inference service directly
ReadingSets ==
    {map_input_to_sensors(d) : d \in UserInputs}
        \cup {(1 :> 1200) @@ (8 :> 800) @@ (7 :> -2) @@ (99 :> 5)}

\* what the artifact files on disk hold when the Inference service starts
Bundle(m, s, f, i) == [model |-> m, scaler |-> s, feature_cols |-> f, imputer |-> i]

Cols(l) == [loaded |-> TRUE, names |-> l]

\* a model that is within budget at exactly the limits up to k
SafeUpTo(k) ==
    [loaded |-> TRUE,
     risk |-> [s \in Ladder |-> IF s <= k THEN RISK_BUDGET - 1 ELSE RISK_BUDGET]]

\* every combination of present and absent files, every model
AllDisks ==
    {Bundle(m, s, f, i) :
        m \in {NotLoaded} \cup AllModels,
        s \in {NotLoaded, LoadedScaler},
        f \in {NotLoaded} \cup {Cols(l) : l \in FeatureLists},
        i \in {NotLoaded, LoadedImputer}}

\* the disks a pipeline run is started on: the complete bundle with a model
\* safe everywhere, safe up to 70 and safe nowhere, and each way of being
\* incomplete or mismatched
PipelineDisks ==
    {Bundle(SafeUpTo(k), LoadedScaler, Cols(FeaturesTrained), LoadedImputer) : k \in {130, 70, 0}}
        \cup {Bundle(SafeUpTo(70), LoadedScaler, Cols(l), LoadedImputer) :
                l \in {FeaturesRenamed, FeaturesExtra}}
        \cup {Bundle(NotLoaded, LoadedScaler, Cols(FeaturesTrained), LoadedImputer),
              Bundle(SafeUpTo(70), NotLoaded, Cols(FeaturesTrained), LoadedImputer),
              Bundle(SafeUpTo(70), LoadedScaler, NotLoaded, LoadedImputer),
              Bundle(SafeUpTo(70), LoadedScaler, Cols(FeaturesTrained), NotLoaded)}

----------------------------------------------------------------------------
(* State machine *)

Init ==
    /\ started = FALSE
    /\ model = NotLoaded
    /\ scaler = NotLoaded
    /\ feature_cols = NotLoaded
    /\ imputer = NotLoaded
    /\ user_input = [r \in Requests |-> NoInput]
    /\ pc = [r \in Requests |-> "idle"]
    /\ reply = [r \in Requests |-> NoReply]
    /\ requires_nn = [r \in Requests |-> FALSE]
    /\ router_reason = [r \in Requests |-> <<>>]
    /\ decision = [r \in Requests |-> NoDecision]
    /\ calls = [r \in Requests |-> <<>>]
    /\ replies = [r \in Requests |-> <<>>]
    /\ agent_log = [r \in Requests |-> NoResult]
    /\ direct = [op |-> "none"]

controller == <<user_input, pc, reply, requires_nn, router_reason, decision,
                calls, replies, agent_log>>

\* the startup event of the Inference service: each global is set from its
\* file when the file is there
load_artifacts(disk) ==
    /\ ~started
    /\ started' = TRUE
    /\ model' = disk.model
    /\ scaler' = disk.scaler
    /\ feature_cols' = disk.feature_cols
    /\ imputer' = disk.imputer
    /\ UNCHANGED <<controller, direct>>

\* a client posts readings to /optimize_speed_limit itself
optimize_directly(readings) ==
    /\ started
    /\ direct.op = "none"
    /\ direct' = [op |-> "optimize", readings |-> readings,
                  result |-> find_safe_speed_limit(readings, model, scaler,
                                                   feature_cols, imputer)]
    /\ UNCHANGED <<started, artifacts, controller>>

\* a client posts a weather triple to /check_conditions itself
check_directly(data) ==
    /\ direct.op = "none"
    /\ direct' = [op |-> "check", data |-> data,
                  result |-> check_weather_conditions(data)]
    /\ UNCHANGED <<started, artifacts, controller>>

\* a branch selection that consults the air quality policy whatever the verdict
NextCallPolicyAlways(nn) == "air_quality"

\* a branch selection with the two branches exchanged
NextCallSwapped(nn) == IF nn THEN "air_quality" ELSE "inference"

\* branch selection after the Router's reply
NextCall(nn) == IF nn THEN "inference" ELSE "air_quality"

AwaitOf(svc) ==
    CASE svc = "router" -> "await_router"
      [] svc = "inference" -> "await_inference"
      [] svc = "air_quality" -> "await_air_quality"

\* decide_speed_limit up to its first await: the post to the Router
decide_start(r, data) ==
    /\ pc[r] = "idle"
    /\ user_input' = [user_input EXCEPT ![r] = data]
    /\ pc' = [pc EXCEPT ![r] = AwaitOf("router")]
    /\ calls' = [calls EXCEPT ![r] = Append(@, "router")]
    /\ UNCHANGED <<started, artifacts, reply, requires_nn, router_reason, decision,
                   replies, agent_log, direct>>

\* the Router service handles the request and replies
router_service(r) ==
    /\ pc[r] = "await_router"
    /\ reply[r] = NoReply
    /\ reply' = [reply EXCEPT ![r] =
                    [kind |-> "json", status |-> 200,
                     body |-> check_weather_conditions(router_payload(user_input[r]))]]
    /\ UNCHANGED <<started, artifacts, user_input, pc, requires_nn, router_reason,
                   decision, calls, replies, agent_log, direct>>

\* the awaited post fails or brings back something else than the service's reply
transport_fault(r) ==
    /\ pc[r] \in {AwaitOf(s) : s \in Services}
    /\ reply[r] = NoReply
    /\ \E f \in TransportFaults : reply' = [reply EXCEPT ![r] = f]
    /\ UNCHANGED <<started, artifacts, user_input, pc, requires_nn, router_reason,
                   decision, calls, replies, agent_log, direct>>

\* decide_speed_limit from the Router's reply to its next await or its raise
decide_after_router(r) ==
    /\ pc[r] = "await_router"
    /\ reply[r] # NoReply
    /\ replies' = [replies EXCEPT ![r] = Append(@, reply[r])]
    /\ reply' = [reply EXCEPT ![r] = NoReply]
    /\ IF CallRaises(reply[r])
       THEN /\ decision' = [decision EXCEPT ![r] = ServiceUnavailable("Router Service")]
            /\ pc' = [pc EXCEPT ![r] = "done"]
            /\ UNCHANGED <<requires_nn, router_reason, calls>>
       ELSE LET nn == ReadRequiresNN(reply[r].body)
            IN  /\ requires_nn' = [requires_nn EXCEPT ![r] = nn]
                /\ router_reason' = [router_reason EXCEPT ![r] = ReadRouterReason(reply[r].body)]
                /\ pc' = [pc EXCEPT ![r] = AwaitOf(NextCall(nn))]
                /\ calls' = [calls EXCEPT ![r] = Append(@, NextCall(nn))]
                /\ UNCHANGED decision
    /\ UNCHANGED <<started, artifacts, user_input, agent_log, direct>>

\* a handler that loads what is missing when a request finds the service
\* not ready
inference_service_reloading(r) ==
    /\ started
    /\ pc[r] = "await_inference"
    /\ reply[r] = NoReply
    /\ LET res == find_safe_speed_limit(map_input_to_sensors(user_input[r]),
                                        model, scaler, feature_cols, imputer)
       IN  reply' = [reply EXCEPT ![r] =
                        [kind |-> res.kind, status |-> res.status, body |-> res.body]]
    /\ model' = IF model.loaded THEN model ELSE SafeUpTo(130)
    /\ scaler' = IF scaler.loaded THEN scaler ELSE LoadedScaler
    /\ feature_cols' = IF feature_cols.loaded THEN feature_cols ELSE Cols(FeaturesTrained)
    /\ UNCHANGED <<started, imputer, user_input, pc, requires_nn,
                   router_reason, decision, calls, replies, agent_log, direct>>

\* a handler that releases the model once it has answered
inference_service_releasing(r) ==
    /\ started
    /\ pc[r] = "await_inference"
    /\ reply[r] = NoReply
    /\ LET res == find_safe_speed_limit(map_input_to_sensors(user_input[r]),
                                        model, scaler, feature_cols, imputer)
       IN  reply' = [reply EXCEPT ![r] =
                        [kind |-> res.kind, status |-> res.status, body |-> res.body]]
    /\ model' = NotLoaded
    /\ UNCHANGED <<started, scaler, feature_cols, imputer, user_input, pc, requires_nn,
                   router_reason, decision, calls, replies, agent_log, direct>>

\* the Inference service handles the request and replies
inference_service(r) ==
    /\ started
    /\ pc[r] = "await_inference"
    /\ reply[r] = NoReply
    /\ LET res == find_safe_speed_limit(map_input_to_sensors(user_input[r]),
                                        model, scaler, feature_cols, imputer)
       IN  reply' = [reply EXCEPT ![r] =
                        [kind |-> res.kind, status |-> res.status, body |-> res.body]]
    /\ UNCHANGED <<started, artifacts, user_input, pc, requires_nn, router_reason,
                   decision, calls, replies, agent_log, direct>>

\* the Air Quality service handles the request: one provider call, one reply
air_quality_service(r) ==
    /\ pc[r] = "await_air_quality"
    /\ reply[r] = NoReply
    /\ \E outcome \in ProviderOutcomes :
          LET result == get_speed_reduction(outcome)
          IN  /\ agent_log' = [agent_log EXCEPT ![r] =
                                  [reason |-> "called", outcome |-> outcome, result |-> result]]
              /\ reply' = [reply EXCEPT ![r] = calculate_reduction(user_input[r].aqi, result)]
    /\ UNCHANGED <<started, artifacts, user_input, pc, requires_nn, router_reason,
                   decision, calls, replies, direct>>

\* decide_speed_limit from the Inference reply to its return or raise
decide_after_inference(r) ==
    /\ pc[r] = "await_inference"
    /\ reply[r] # NoReply
    /\ replies' = [replies EXCEPT ![r] = Append(@, reply[r])]
    /\ reply' = [reply EXCEPT ![r] = NoReply]
    /\ decision' = [decision EXCEPT ![r] = AfterInference(router_reason[r], reply[r])]
    /\ pc' = [pc EXCEPT ![r] = "done"]
    /\ UNCHANGED <<started, artifacts, user_input, requires_nn, router_reason,
                   calls, agent_log, direct>>

\* decide_speed_limit from the Air Quality reply to its return or raise
decide_after_air_quality(r) ==
    /\ pc[r] = "await_air_quality"
    /\ reply[r] # NoReply
    /\ replies' = [replies EXCEPT ![r] = Append(@, reply[r])]
    /\ reply' = [reply EXCEPT ![r] = NoReply]
    /\ decision' = [decision EXCEPT ![r] = AfterAirQuality(reply[r])]
    /\ pc' = [pc EXCEPT ![r] = "done"]
    /\ UNCHANGED <<started, artifacts, user_input, requires_nn, router_reason,
                   calls, agent_log, direct>>

Startup == ~started /\ \E disk \in PipelineDisks : load_artifacts(disk)

\* the client (the GUI, the system test) posts its next request after the
\* reply to the one before
Submit ==
    \E r \in Requests, data \in UserInputs :
        /\ \A q \in Requests : q < r => pc[q] = "done"
        /\ decide_start(r, data)

RouterReplies == \E r \in Requests : router_service(r)

TransportFails == \E r \in Requests : transport_fault(r)

RouterRead == \E r \in Requests : decide_after_router(r)

InferenceReplies == \E r \in Requests : inference_service(r)

AirQualityReplies == \E r \in Requests : air_quality_service(r)

InferenceRead == \E r \in Requests : decide_after_inference(r)

AirQualityRead == \E r \in Requests : decide_after_air_quality(r)

Next ==
    \/ Startup
    \/ Submit
    \/ RouterReplies
    \/ TransportFails
    \/ RouterRead
    \/ InferenceReplies
    \/ AirQualityReplies
    \/ InferenceRead
    \/ AirQualityRead

\* the pipeline: two requests of one client through the Controller
Spec == Init /\ [][Next]_vars

StartupAny == ~started /\ \E disk \in AllDisks : load_artifacts(disk)

Optimize == started /\ direct.op = "none" /\ \E readings \in ReadingSets : optimize_directly(readings)

NextOptimizer == StartupAny \/ Optimize

\* the Inference service alone, on every disk, called directly
SpecOptimizer == Init /\ [][NextOptimizer]_vars

\* clients that post without waiting for one another: the handlers of the
\* two requests interleave freely
ConcurrentInputs ==
    {[temperature_celsius |-> 15, water_level_micrometers |-> 0,
      illuminance_lux |-> 499, aqi |-> 30],
     [temperature_celsius |-> -5, water_level_micrometers |-> 2000,
      illuminance_lux |-> 1000, aqi |-> 200],
     [temperature_celsius |-> 15, water_level_micrometers |-> 0,
      illuminance_lux |-> 501, aqi |-> 200]}

ConcurrentDisks ==
    {Bundle(SafeUpTo(70), LoadedScaler, Cols(FeaturesTrained), LoadedImputer),
     Bundle(SafeUpTo(0), LoadedScaler, Cols(FeaturesTrained), NotLoaded),
     Bundle(SafeUpTo(130), NotLoaded, Cols(FeaturesTrained), LoadedImputer)}

StartupConcurrent == ~started /\ \E disk \in ConcurrentDisks : load_artifacts(disk)

SubmitConcurrent ==
    \E r \in Requests, data \in ConcurrentInputs : decide_start(r, data)

NextConcurrent ==
    \/ StartupConcurrent
    \/ SubmitConcurrent
    \/ RouterReplies
    \/ TransportFails
    \/ RouterRead
    \/ InferenceReplies
    \/ AirQualityReplies
    \/ InferenceRead
    \/ AirQualityRead

\* the pipeline under concurrent clients
SpecConcurrent == Init /\ [][NextConcurrent]_vars

Check == \E data \in WeatherInputs : check_directly(data)

NextRouter == Check

\* the Router service alone, called directly
SpecRouter == Init /\ [][NextRouter]_vars

----------------------------------------------------------------------------
(* Vocabulary of the properties *)

Range(seq) == {seq[i] : i \in 1..Len(seq)}

Done(r) == pc[r] = "done"

Succeeded(r) == decision[r].status = 200

\* the weather rules as the specification words them
Dangerous(d) ==
    d.illuminance_lux < 500
        \/ (d.water_level_micrometers > 1000 /\ d.temperature_celsius < 0)

SameWeather(a, b) ==
    /\ a.illuminance_lux = b.illuminance_lux
    /\ a.water_level_micrometers = b.water_level_micrometers
    /\ a.temperature_celsius = b.temperature_celsius

StageName(svc) ==
    CASE svc = "router" -> "Router Service"
      [] svc = "inference" -> "Inference Service"
      [] svc = "air_quality" -> "Air Quality Service"

ExpectedFields(svc) ==
    CASE svc = "router" -> {"requires_neural_network", "reason"}
      [] svc = "inference" -> {"recommended_speed", "safety_status"}
      [] svc = "air_quality" -> {"recommended_speed_limit", "reason"}

\* the call timed out, was refused, or brought back a malformed reply
FailedReply(rep, svc) ==
    \/ rep.kind \in {"timeout", "refused", "garbled"}
    \/ \E k \in ExpectedFields(svc) : k \notin DOMAIN rep.body

\* the i-th reply request r has read came from the i-th service it called
ReadFrom(r, i, svc) == Len(replies[r]) >= i /\ calls[r][i] = svc

\* the highest candidate within budget under the loaded model, else 60
HighestSafe(mdl) ==
    LET safe == {s \in {130, 120, 110, 100, 90, 80, 70, 60} : mdl.risk[s] < RISK_BUDGET}
    IN  IF safe = {} THEN 60 ELSE CHOOSE s \in safe : \A t \in safe : t <= s

----------------------------------------------------------------------------
(* C1: every successful top-level decision has a final speed limit in
   {130,120,110,100,90,80,70,60,50,30}, on both branches, whatever the risk
   scorer and the completion provider return. *)
C1_FinalSpeedAllowed ==
    \A r \in Requests :
        Succeeded(r) =>
            decision[r].final_speed_limit \in {130, 120, 110, 100, 90, 80, 70, 60, 50, 30}

(* C2: when the call to the Inference or the Air Quality service times out,
   is refused or brings back a malformed reply (an error-status reply without
   the expected fields included), the request fails with 503 naming that
   service and carries no speed limit. *)
C2_CollaboratorFailureIs503 ==
    \A r \in Requests : \A svc \in {"inference", "air_quality"} :
        (ReadFrom(r, 2, svc) /\ FailedReply(replies[r][2], svc)) =>
            /\ Done(r)
            /\ decision[r] = [status |-> 503, detail |-> StageName(svc)]
            /\ "final_speed_limit" \notin DOMAIN decision[r]

C2_Witness ==
    \E r1, r2 \in Requests :
        /\ ReadFrom(r1, 2, "inference")
        /\ replies[r1][2].kind = "json" /\ replies[r1][2].status = 503
        /\ decision[r1].status = 503
        /\ ReadFrom(r2, 2, "air_quality")
        /\ replies[r2][2].kind = "timeout"
        /\ decision[r2].status = 503

(* C3: every failure of the completion provider (timeout, network error,
   schema-validation failure) makes get_speed_reduction return the fallback
   with reduction 0; the Air Quality service then replies 200 with limit 80,
   and the request that reads this reply succeeds on the policy branch with
   final speed 80. *)
C3_ProviderFailureFallsBack ==
    \A r \in Requests :
        (agent_log[r].reason = "called" /\ agent_log[r].outcome.kind # "parsed") =>
            /\ agent_log[r].result.reduction_kmh = 0
            /\ "reason" \in DOMAIN agent_log[r].result
            /\ reply[r] # NoReply =>
                  (reply[r].status = 200 /\ reply[r].body.recommended_speed_limit = 80)
            /\ Done(r) =>
                  /\ Succeeded(r)
                  /\ decision[r].final_speed_limit = 80
                  /\ decision[r].source_service = "Air Quality Agent (LLM)"

C3_Witness ==
    \E r \in Requests :
        /\ Done(r)
        /\ agent_log[r].reason = "called"
        /\ agent_log[r].outcome.kind = "schema"
        /\ Succeeded(r)
        /\ decision[r].final_speed_limit = 80

(* C4: whatever risks the model predicts for the eight candidates, the speed
   find_safe_speed_limit returns is the highest candidate whose risk is under
   1.0, or 60 when there is none. *)
C4_ReturnsHighestSafe ==
    (direct.op = "optimize" /\ direct.result.status = 200) =>
        direct.result.body.recommended_speed = HighestSafe(model)

\* the same with the feature list required to name SPEED_LIMIT
SearchReturnsHighestSafe ==
    (/\ direct.op = "optimize"
     /\ direct.result.status = 200
     /\ ~SpeedLimitMissing(feature_cols.names)) =>
        direct.result.body.recommended_speed = HighestSafe(model)

(* C5: the router verdict is true exactly when illuminance < 500 or
   (water depth > 1000 and temperature < 0); 500, 1000 and 0 themselves do
   not trigger their rule, and one black-ice condition alone does not. *)
C5_RouterVerdict ==
    direct.op = "check" =>
        LET d == direct.data
        IN  direct.result.requires_neural_network =
                (d.illuminance_lux < 500
                    \/ (d.water_level_micrometers > 1000 /\ d.temperature_celsius < 0))

C5_Witness ==
    /\ direct.op = "check"
    /\ direct.data.illuminance_lux = 500
    /\ direct.data.water_level_micrometers = 1000
    /\ direct.data.temperature_celsius = -1
    /\ direct.result.requires_neural_network = FALSE

(* C6: in every successful top-level decision the source is the risk model
   exactly when illuminance < 500 or (water depth > 1000 and temperature < 0),
   and the policy agent otherwise. *)
C6_SourceFollowsWeather ==
    \A r \in Requests :
        Succeeded(r) =>
            (decision[r].source_service = "Neural Network Inference"
                <=> Dangerous(user_input[r]))

(* C7: when the verdict the Controller reads is true, the Air Quality
   service is never called for that request, and two successful requests on
   the risk branch that differ only in AQI get the same speed, reason and
   source. *)
C7_RiskBranchIgnoresAQI ==
    /\ \A r \in Requests :
          requires_nn[r] =>
              ("air_quality" \notin Range(calls[r]) /\ agent_log[r].reason = "none")
    /\ \A r1, r2 \in Requests :
          (/\ Succeeded(r1) /\ Succeeded(r2)
           /\ requires_nn[r1] /\ requires_nn[r2]
           /\ SameWeather(user_input[r1], user_input[r2])) =>
              decision[r1] = decision[r2]

C7_Witness ==
    \E r1, r2 \in Requests :
        /\ Succeeded(r1) /\ Succeeded(r2)
        /\ requires_nn[r1] /\ requires_nn[r2]
        /\ SameWeather(user_input[r1], user_input[r2])
        /\ user_input[r1].aqi = 30 /\ user_input[r2].aqi = 200
        /\ decision[r1] = decision[r2]

(* C8: within one request the Router is called first and once; after its
   reply exactly one of the Inference and the Air Quality service is called,
   the one the verdict selects; at most one call is outstanding; and a failed
   call ends the request at once, with no further call. *)
C8_CallSequence ==
    \A r \in Requests :
        /\ Len(calls[r]) <= 2
        /\ Len(calls[r]) >= 1 => calls[r][1] = "router"
        /\ Len(calls[r]) = 2 =>
              calls[r][2] = (IF requires_nn[r] THEN "inference" ELSE "air_quality")
        /\ Len(calls[r]) - Len(replies[r]) \in {0, 1}
        /\ (pc[r] \in {"await_router", "await_inference", "await_air_quality"})
              <=> (Len(calls[r]) - Len(replies[r]) = 1)
        /\ decision[r].status = 503 =>
              /\ Done(r)
              /\ Len(calls[r]) = Len(replies[r])
              /\ decision[r].detail = StageName(calls[r][Len(calls[r])])

C8_Witness ==
    \E r1, r2 \in Requests :
        /\ Done(r1) /\ calls[r1] = <<"router", "inference">> /\ Succeeded(r1)
        /\ Done(r2) /\ calls[r2] = <<"router">> /\ decision[r2].status = 503

(* C9: whenever a reply the Controller reads from the Router, the Inference
   or the Air Quality service is malformed or lacks an expected field, the
   request fails with an error naming that stage; no default is put in its
   place and no branch is entered. *)
C9_NoDefaultOnBadReply ==
    \A r \in Requests : \A i \in 1..Len(replies[r]) :
        FailedReply(replies[r][i], calls[r][i]) =>
            /\ Done(r)
            /\ Len(calls[r]) = i
            /\ decision[r] = [status |-> 503, detail |-> StageName(calls[r][i])]

(* C10: when the loaded feature list is not the one the optimizer needs (a
   name or a length mismatch), find_safe_speed_limit answers with an explicit
   error and no recommendation, and the top-level decision carries no speed
   from the risk branch. *)
C10_MismatchIsExplicitError ==
    \A r \in Requests :
        (/\ ReadFrom(r, 2, "inference")
         /\ feature_cols.loaded
         /\ feature_cols.names # FeaturesTrained) =>
            /\ replies[r][2].status # 200
            /\ decision[r].status = 503

----------------------------------------------------------------------------
\* a direct call to find_safe_speed_limit has been answered
Optimized == direct.op = "optimize"

\* the answer is the 503 of the artifacts check, with no candidate scored
NotReady ==
    /\ direct.result.status = 503
    /\ direct.result.body = [detail |-> "Service not ready. Artifacts missing."]
    /\ direct.result.scored = <<>>

(* C11: find_safe_speed_limit fails with ServiceUnavailable, without scoring
   any candidate, whenever any artifact of the risk-scoring bundle (feature
   list, imputer, scaler, scoring function) is not loaded. *)
C11_AnyArtifactMissingIs503 ==
    (/\ Optimized
     /\ ~model.loaded \/ ~scaler.loaded \/ ~feature_cols.loaded \/ ~imputer.loaded) =>
        NotReady

(* C11, amended: find_safe_speed_limit fails with ServiceUnavailable, without
   scoring any candidate, whenever the model, the scaler or the feature list
   is not loaded; the imputer is not part of that check, and with the other
   three loaded the answer is never that 503. *)
C11_CoreArtifactMissingIs503 ==
    Optimized =>
        IF ~model.loaded \/ ~scaler.loaded \/ ~feature_cols.loaded
        THEN NotReady
        ELSE direct.result.status # 503

C11_Witness ==
    /\ Optimized
    /\ model.loaded /\ feature_cols.loaded /\ imputer.loaded /\ ~scaler.loaded
    /\ NotReady

----------------------------------------------------------------------------
\* the loaded feature list names SPEED_LIMIT and has the scaler's width
FeatureListFits ==
    /\ "SPEED_LIMIT" \in Names(feature_cols.names)
    /\ Len(feature_cols.names) = scaler.n_features

\* the value 0.0 of a feature
Zero == [sum |-> 0, n |-> 1]

(* C12: when the imputer is absent but the model, the scaler and the feature
   list are loaded, find_safe_speed_limit does not fail for want of it: it
   never answers 503, and on a feature list that fits the scaler it answers
   200, every absent feature value of every trial row is filled with zero,
   the candidates are scored and the recommendation is the one the search
   gives (the highest candidate under 1.0, else 60). *)
C12_AbsentImputerZeroFills ==
    (/\ Optimized
     /\ ~imputer.loaded /\ model.loaded /\ scaler.loaded /\ feature_cols.loaded) =>
        /\ direct.result.status # 503
        /\ FeatureListFits =>
            /\ direct.result.status = 200
            /\ direct.result.scored # <<>>
            /\ direct.result.body.recommended_speed = HighestSafe(model)
            /\ \A i \in 1..Len(direct.result.trials) :
                \A col \in Names(feature_cols.names) \ {"SPEED_LIMIT"} :
                    direct.result.trials[i][col] =
                        IF temp_values(direct.readings, feature_cols.names, col) = {}
                        THEN Zero
                        ELSE direct.result.row[col]

C12_Witness ==
    /\ Optimized
    /\ ~imputer.loaded /\ model.loaded /\ scaler.loaded /\ feature_cols.loaded
    /\ FeatureListFits
    /\ direct.result.status = 200
    /\ direct.result.body.safety_status = "Safe"
    /\ temp_values(direct.readings, feature_cols.names, "L") = {}
    /\ direct.result.trials[1]["L"] = Zero

----------------------------------------------------------------------------
\* request r was answered from the policy branch
FromPolicy(r) ==
    /\ Done(r) /\ Succeeded(r)
    /\ decision[r].source_service = "Air Quality Agent (LLM)"

\* request r was answered from the risk branch
FromRisk(r) ==
    /\ Done(r) /\ Succeeded(r)
    /\ decision[r].source_service = "Neural Network Inference"

(* C13: for every reduction r the agent returns, the final speed of a
   policy-branch decision equals max(30, 80 - r): it is never below the floor
   30, and it is the speed of the Air Quality reply, passed through by the
   Controller unchanged. *)
C13_PolicySpeedIsFlooredDifference ==
    \A r \in Requests :
        FromPolicy(r) =>
            /\ ReadFrom(r, 2, "air_quality")
            /\ agent_log[r].reason = "called"
            /\ LET red == agent_log[r].result.reduction_kmh
               IN  /\ decision[r].final_speed_limit =
                        (IF 80 - red > 30 THEN 80 - red ELSE 30)
                   /\ decision[r].final_speed_limit >= 30
                   /\ decision[r].final_speed_limit =
                        replies[r][2].body.recommended_speed_limit

C13_Witness ==
    \E r \in Requests :
        /\ FromPolicy(r)
        /\ agent_log[r].result.reduction_kmh = 60
        /\ decision[r].final_speed_limit = 30

----------------------------------------------------------------------------
(* C14: every result that leaves the agent, provider result or fallback, has
   a reduction of at least 0, so the final speed of a policy-branch decision
   never exceeds the baseline 80. *)
C14_ReductionNonNegative ==
    \A r \in Requests :
        /\ agent_log[r].reason = "called" => agent_log[r].result.reduction_kmh >= 0
        /\ FromPolicy(r) => decision[r].final_speed_limit <= 80

----------------------------------------------------------------------------
\* request r carries safe weather and an AQI between lo and hi
SafeWeatherAQI(r, lo, hi) ==
    /\ user_input[r] # NoInput
    /\ ~Dangerous(user_input[r])
    /\ user_input[r].aqi >= lo /\ user_input[r].aqi <= hi

\* the provider call of request r returned a parsed result
ProviderAnswered(r) ==
    agent_log[r].reason = "called" /\ agent_log[r].outcome.kind = "parsed"

(* C15: for every AQI in [0,50] with safe weather and an available
   completion provider, the reduction is 0 and the final speed limit is 80
   from the policy branch. *)
C15_GoodAirKeepsBaseline ==
    \A r \in Requests :
        (/\ Done(r) /\ Succeeded(r)
         /\ SafeWeatherAQI(r, 0, 50)
         /\ ProviderAnswered(r)) =>
            /\ agent_log[r].result.reduction_kmh = 0
            /\ decision[r].final_speed_limit = 80
            /\ decision[r].source_service = "Air Quality Agent (LLM)"

(* C15, amended: for every AQI in [0,50] with safe weather, every completed
   decision comes from the policy branch, and its final speed limit is 80
   exactly when the reduction that left the agent is 0: the provider's
   answer when it follows the first rule of its prompt, or the fallback. *)
C15_ZeroReductionKeepsBaseline ==
    \A r \in Requests :
        (Done(r) /\ Succeeded(r) /\ SafeWeatherAQI(r, 0, 50)) =>
            /\ FromPolicy(r)
            /\ agent_log[r].reason = "called"
            /\ decision[r].final_speed_limit = 80
                <=> agent_log[r].result.reduction_kmh = 0

C15_Witness ==
    \E r \in Requests :
        /\ FromPolicy(r)
        /\ SafeWeatherAQI(r, 0, 50)
        /\ ProviderAnswered(r)
        /\ agent_log[r].outcome.reduction_kmh = 0
        /\ decision[r].final_speed_limit = 80

----------------------------------------------------------------------------
(* C16: for safe weather and hazardous AQI (above 150, e.g. 200 or 500),
   every completed decision comes from the policy branch and has a final
   speed limit of at most 60. *)
C16_HazardousAirAtMost60 ==
    \A r \in Requests :
        (Done(r) /\ Succeeded(r) /\ SafeWeatherAQI(r, 151, 500)) =>
            /\ FromPolicy(r)
            /\ decision[r].final_speed_limit <= 60

(* C16, amended: for safe weather and hazardous AQI (above 150), every
   completed decision comes from the policy branch; its final speed limit is
   at most 60 exactly when the reduction that left the agent is at least 20,
   and when the provider call fails the fallback makes it 80. *)
C16_HazardousAirFollowsReduction ==
    \A r \in Requests :
        (Done(r) /\ Succeeded(r) /\ SafeWeatherAQI(r, 151, 500)) =>
            /\ FromPolicy(r)
            /\ agent_log[r].reason = "called"
            /\ decision[r].final_speed_limit <= 60
                <=> agent_log[r].result.reduction_kmh >= 20
            /\ ~ProviderAnswered(r) => decision[r].final_speed_limit = 80

C16_Witness ==
    \E r \in Requests :
        /\ FromPolicy(r)
        /\ SafeWeatherAQI(r, 151, 500)
        /\ ProviderAnswered(r)
        /\ agent_log[r].outcome.reduction_kmh = 40
        /\ decision[r].final_speed_limit = 40

\* the case the claim as worded leaves out: the provider call fails
C16_FallbackReached ==
    \E r \in Requests :
        /\ FromPolicy(r)
        /\ SafeWeatherAQI(r, 151, 500)
        /\ ~ProviderAnswered(r)
        /\ decision[r].final_speed_limit = 80

----------------------------------------------------------------------------
\* the black-ice rule as the specification words it
BlackIce(d) == d.water_level_micrometers > 1000 /\ d.temperature_celsius < 0

(* C17: when the black-ice rule fires (water depth > 1000 and temperature
   < 0, e.g. temp=-5, water=2000, lux=1000), every completed decision comes
   from the risk branch and has a final speed limit of at most 70. *)
C17_BlackIceAtMost70 ==
    \A r \in Requests :
        (/\ Done(r) /\ Succeeded(r)
         /\ user_input[r] # NoInput
         /\ BlackIce(user_input[r])) =>
            /\ decision[r].source_service = "Neural Network Inference"
            /\ decision[r].final_speed_limit <= 70

----------------------------------------------------------------------------
\* the transport fault met on a reply, if any
FaultOf(rep) == IF rep \in TransportFaults THEN rep ELSE NoReply

\* what lay outside decide_speed_limit during request r: the fault met on
\* each call, and what the provider did when the agent was called
Surroundings(r) ==
    [faults |-> [i \in 1..Len(replies[r]) |-> FaultOf(replies[r][i])],
     provider |-> IF agent_log[r].reason = "called" THEN agent_log[r].outcome
                  ELSE NoReply]

(* C18: two runs of decide_speed_limit on the same sensor snapshot, with the
   same loaded artifacts and the same provider, scorer and transport
   behaviour, return the same outcome: the same final speed, reason and
   source, or the same error. *)
C18_SameRunsSameDecision ==
    \A r1, r2 \in Requests :
        (/\ Done(r1) /\ Done(r2)
         /\ user_input[r1] = user_input[r2]
         /\ Surroundings(r1) = Surroundings(r2)) =>
            decision[r1] = decision[r2]

C18_Witness ==
    \E r1, r2 \in Requests :
        /\ r1 # r2
        /\ Done(r1) /\ Done(r2)
        /\ user_input[r1] = user_input[r2]
        /\ Surroundings(r1) = Surroundings(r2)
        /\ FromPolicy(r1) /\ FromPolicy(r2)
        /\ ProviderAnswered(r1)
        /\ decision[r1].final_speed_limit = decision[r2].final_speed_limit

\* the same snapshot twice through the risk branch
C18_RiskBranchTwice ==
    \E r1, r2 \in Requests :
        /\ r1 # r2
        /\ user_input[r1] = user_input[r2]
        /\ FromRisk(r1) /\ FromRisk(r2)

----------------------------------------------------------------------------
\* everything request q holds
Slot(q) ==
    <<user_input[q], pc[q], reply[q], requires_nn[q], router_reason[q], decision[q],
      calls[q], replies[q], agent_log[q]>>

\* the reply of a call: the fault met on it, else what the service answers
ReplyAlone(fault, answer) == IF fault # NoReply THEN fault ELSE answer

\* the decision a snapshot gives when its request is the only one, under the
\* loaded artifacts and the given surroundings
AloneDecision(data, around) ==
    LET router_rep ==
            ReplyAlone(around.faults[1],
                       [kind |-> "json", status |-> 200,
                        body |-> check_weather_conditions(router_payload(data))])
        res == find_safe_speed_limit(map_input_to_sensors(data),
                                     model, scaler, feature_cols, imputer)
    IN  IF CallRaises(router_rep)
        THEN ServiceUnavailable("Router Service")
        ELSE IF ReadRequiresNN(router_rep.body)
        THEN AfterInference(ReadRouterReason(router_rep.body),
                            ReplyAlone(around.faults[2],
                                       [kind |-> res.kind, status |-> res.status,
                                        body |-> res.body]))
        ELSE AfterAirQuality(
                 ReplyAlone(around.faults[2],
                            calculate_reduction(data.aqi,
                                                get_speed_reduction(around.provider))))

\* a step after startup leaves the artifacts alone and touches the slot of
\* one request at most
StepKeepsToItsRequest ==
    started =>
        /\ artifacts' = artifacts
        /\ \E r \in Requests : \A q \in Requests \ {r} : Slot(q)' = Slot(q)

\* a finished request has the decision it gets when run alone
DecisionAsAlone ==
    \A r \in Requests :
        Done(r) => decision[r] = AloneDecision(user_input[r], Surroundings(r))

(* C19: requests handled concurrently do not interfere: after startup no
   step of a request handler writes the artifact bundle (model, scaler,
   feature list, imputer) or anything another request holds, so under every
   interleaving each request's result equals the result it gives when run
   alone. *)
C19_NoInterference == [][StepKeepsToItsRequest]_vars /\ []DecisionAsAlone

\* both requests are at the Inference service at once and both have their
\* answers before either is read
C19_Witness ==
    /\ pc[1] = "await_inference" /\ pc[2] = "await_inference"
    /\ reply[1].kind = "json" /\ reply[1].status = 200
    /\ reply[2].kind = "json" /\ reply[2].status = 200
    /\ user_input[1] # user_input[2]

----------------------------------------------------------------------------
\* the loop of the answered call was entered
SearchRan ==
    /\ direct.result.status = 200
    /\ ~SpeedLimitMissing(feature_cols.names)

(* C20: find_safe_speed_limit scores candidates one at a time in the
   strictly descending order 130,120,110,100,90,80,70,60: the candidates
   scored in a request are an initial stretch of that order, at most eight;
   once a candidate scores under 1.0 no lower candidate is scored, and the
   loop stops no earlier than that. *)
C20_ScoresDescendingToFirstSafe ==
    Optimized =>
        LET scored == direct.result.scored
        IN  /\ Len(scored) <= 8
            /\ \A i \in 1..Len(scored) : scored[i] = 130 - 10 * (i - 1)
            /\ \A i \in 1..(Len(scored) - 1) : model.risk[scored[i]] >= RISK_BUDGET
            /\ SearchRan =>
                /\ Len(scored) >= 1
                /\ Len(scored) = 8 \/ model.risk[scored[Len(scored)]] < RISK_BUDGET

\* the loop stopped at 100 after scoring 130, 120 and 110 at 1.0 or more
C20_Witness ==
    /\ Optimized
    /\ SearchRan
    /\ direct.result.scored = <<130, 120, 110, 100>>
    /\ model.risk[110] >= RISK_BUDGET
    /\ model.risk[100] < RISK_BUDGET
    /\ direct.result.body.recommended_speed = 100

\* all eight candidates were scored and none was under 1.0
C20_AllEightScored ==
    /\ Optimized
    /\ SearchRan
    /\ Len(direct.result.scored) = 8
    /\ direct.result.body.safety_status = "Risk High - Lowest Limit Selected"

----------------------------------------------------------------------------
\* the scores of the answered call: the risk of the i-th candidate scored
ScoreOf(i) == model.risk[direct.result.scored[i]]

\* some candidate scored in the answered call was under 1.0
SomeScoredSafe ==
    \E i \in 1..Len(direct.result.scored) : ScoreOf(i) < RISK_BUDGET

(* C21: when all eight candidates are scored at 1.0 or more,
   find_safe_speed_limit returns speed 60 with the high-risk status; the
   status is the safe one exactly when some candidate scored under 1.0; and
   the placeholder speed 30 is never returned. *)
C21_ExhaustedReturns60 ==
    (Optimized /\ direct.result.status = 200) =>
        /\ (/\ Len(direct.result.scored) = 8
            /\ \A i \in 1..8 : ScoreOf(i) >= RISK_BUDGET) =>
                /\ direct.result.body.recommended_speed = 60
                /\ direct.result.body.safety_status = "Risk High - Lowest Limit Selected"
        /\ direct.result.body.safety_status = "Safe" <=> SomeScoredSafe
        /\ direct.result.body.recommended_speed # 30

C21_Witness ==
    /\ Optimized /\ direct.result.status = 200
    /\ Len(direct.result.scored) = 8
    /\ \A i \in 1..8 : ScoreOf(i) >= RISK_BUDGET
    /\ direct.result.body.recommended_speed = 60
    /\ direct.result.body.safety_status # "Safe"

----------------------------------------------------------------------------
\* the lowest of the scores of the answered call
MinScore ==
    CHOOSE m \in {ScoreOf(i) : i \in 1..Len(direct.result.scored)} :
        \A i \in 1..Len(direct.result.scored) : m <= ScoreOf(i)

(* C22: the predicted risk find_safe_speed_limit reports equals the minimum
   of the scores of all candidates scored in that request: when a candidate
   is accepted it is that candidate's score and under 1.0, and when the
   search is exhausted it is the minimum over all eight scores. *)
C22_PredictedRiskIsMinimum ==
    (Optimized /\ direct.result.scored # <<>>) =>
        LET n == Len(direct.result.scored)
        IN  /\ direct.result.body.predicted_risk = MinScore
            /\ direct.result.body.safety_status = "Safe" =>
                /\ direct.result.body.predicted_risk = ScoreOf(n)
                /\ direct.result.body.predicted_risk < RISK_BUDGET
            /\ direct.result.body.safety_status # "Safe" =>
                /\ n = 8
                /\ \A s \in {130, 120, 110, 100, 90, 80, 70, 60} :
                        direct.result.body.predicted_risk <= model.risk[s]

\* the same for calls in which some score is under the initial 999.0
MinimumWhenUnderInitial ==
    (/\ Optimized /\ direct.result.scored # <<>>
     /\ \E i \in 1..Len(direct.result.scored) : ScoreOf(i) < INITIAL_LOWEST_RISK) =>
        direct.result.body.predicted_risk = MinScore

----------------------------------------------------------------------------
\* the ids among the readings of the answered call that the table maps to
\* that feature type
MappedTo(col) ==
    {id \in DOMAIN direct.readings : id \in DOMAIN id_to_type /\ id_to_type[id] = col}

\* the readings of the answered call without the ids outside the table
KnownReadings ==
    [id \in DOMAIN direct.readings \cap DOMAIN id_to_type |-> direct.readings[id]]

(* C23: in find_safe_speed_limit each feature value built from the sparse
   readings is the arithmetic mean of all readings whose sensor id maps to
   that feature type in the static table (their sum over their number);
   readings with an id outside the table never cause an error and never
   change any feature value; a feature type with no reading stays marked
   missing. *)
C23_FeatureIsMeanOfMapped ==
    (Optimized /\ direct.result.status # 503) =>
        /\ \A col \in Names(feature_cols.names) :
            IF MappedTo(col) = {}
            THEN direct.result.row[col] = [sum |-> 0, n |-> 0]
            ELSE /\ direct.result.row[col].n = Cardinality(MappedTo(col))
                 /\ direct.result.row[col].sum = SumOver(direct.readings, MappedTo(col))
        /\ direct.result =
            find_safe_speed_limit(KnownReadings, model, scaler, feature_cols, imputer)

C23_Witness ==
    /\ Optimized /\ direct.result.status = 200
    /\ {1, 8, 99} \subseteq DOMAIN direct.readings
    /\ direct.result.row["W"] = [sum |-> 2000, n |-> 2]
    /\ direct.result.row["T"] = [sum |-> -2, n |-> 1]
    /\ direct.result.row["L"] = NaN

----------------------------------------------------------------------------
\* startup has finished with the model, the scaler or the feature list absent
StartedNotReady == started /\ ArtifactsMissing(model, scaler, feature_cols)

\* a step from such a state leaves the service in it, with the same artifacts
StaysNotReady == StartedNotReady => (artifacts' = artifacts /\ started')

\* with the service not ready: every answer of the Inference service is its
\* 503, every request that called it failed naming it, and a request that
\* read the Air Quality service's own reply succeeded
RiskBranchDownPolicyUp ==
    StartedNotReady =>
        \A r \in Requests :
            /\ (pc[r] = "await_inference" /\ reply[r] # NoReply /\ FaultOf(reply[r]) = NoReply) =>
                /\ reply[r].status = 503
                /\ reply[r].body = [detail |-> "Service not ready. Artifacts missing."]
            /\ (Done(r) /\ ReadFrom(r, 2, "inference")) =>
                decision[r] = [status |-> 503, detail |-> "Inference Service"]
            /\ (Done(r) /\ ReadFrom(r, 2, "air_quality") /\ FaultOf(replies[r][2]) = NoReply) =>
                FromPolicy(r)

(* C24: if startup finishes with the model, the scaler or the feature list
   not loaded, nothing loads them later: every later optimize request is
   answered 503, so every top-level request routed to the risk branch fails
   with 503 naming the Inference Service, while requests routed to the
   policy branch still succeed. *)
C24_NotReadyForGood == [][StaysNotReady]_vars /\ []RiskBranchDownPolicyUp

\* with the scaler absent, one request has failed on the risk branch after
\* the service's own 503 and the other has succeeded on the policy branch
C24_Witness ==
    /\ started /\ ~scaler.loaded /\ model.loaded /\ feature_cols.loaded
    /\ \E r1, r2 \in Requests :
        /\ Done(r1) /\ ReadFrom(r1, 2, "inference")
        /\ replies[r1][2].status = 503
        /\ decision[r1] = [status |-> 503, detail |-> "Inference Service"]
        /\ FromPolicy(r2)

----------------------------------------------------------------------------
\* the call to the Router of request r failed: connection error, timeout, or
\* a reply that cannot be parsed
RouterCallFailed(r) ==
    /\ Len(replies[r]) >= 1
    /\ replies[r][1].kind \in {"refused", "timeout", "garbled"}

(* C25: if the call to the Router service fails (connection error, timeout,
   or a reply that cannot be parsed), decide_speed_limit fails with 503
   naming the Router Service, and neither the Inference nor the Air Quality
   service is called in that request. *)
C25_RouterFailureStopsRequest ==
    \A r \in Requests :
        RouterCallFailed(r) =>
            /\ Done(r)
            /\ decision[r] = [status |-> 503, detail |-> "Router Service"]
            /\ calls[r] = <<"router">>
            /\ agent_log[r].reason = "none"

C25_Witness ==
    \E r \in Requests :
        /\ RouterCallFailed(r)
        /\ replies[r][1].kind = "garbled"
        /\ Done(r)
        /\ decision[r].detail = "Router Service"
        /\ calls[r] = <<"router">>

====
